---- MODULE Spec2Model ----
(***************************************************************************)
(* DD1750 core (src/dd1750_core.py): extraction of BOM items from a PDF    *)
(* (extract_items_from_pdf) and their pagination onto the DD1750 template *)
(* (generate_dd1750_from_pdf).                                             *)
(*                                                                         *)
(* Text is a sequence of one-character strings, so that strip, split,     *)
(* upper-casing and the regular expressions of the code are computed and   *)
(* not assumed.  None is the one-element sequence <<"<None>">>.            *)
(***************************************************************************)
EXTENDS Integers, Sequences, FiniteSets, TLC

VARIABLES
    pc,            \* position of the running function
    items,         \* extract_items_from_pdf: items; generate: the list it returned
    page_no,       \* pages of pdf.pages[start_page:] visited so far
    words,         \* page.extract_words() of the current page
    bIdx,          \* index of the next entry of b_positions
    row_seen,      \* a row of table[1:] was visited
    col_indices,   \* column roles of the current table
    outcome,       \* what the last step did with its row or line
    from_words,    \* how many of items the position-based pass appended
    result,        \* the value returned by extract_items_from_pdf
    header,        \* table[0] of the current table
    hIdx,          \* index of the next header cell to classify
    material_cell, \* row[col_indices['material']]
    nsn,           \* the identifier derived from material_cell
    writer,        \* PdfWriter: the pages added so far
    page_num,      \* loop variable of generate_dd1750_from_pdf
    template_ok,   \* PdfReader(template_path).pages[0] can be read
    output_ok,     \* the file at output_path can be written
    failure,       \* what raised inside the try block of generate, "none" if nothing
    output,        \* pages of the file at output_path, <<>> while it is not written
    ret            \* value returned by generate_dd1750_from_pdf

extVars == <<items, page_no, words, bIdx, row_seen, outcome, from_words, result>>
hdrVars == <<header, hIdx, col_indices>>
nsnVars == <<material_cell, nsn>>
genVars == <<writer, page_num, template_ok, output_ok, failure, output, ret>>
vars == <<pc, extVars, hdrVars, nsnVars, genVars>>

-----------------------------------------------------------------------------
(* Characters and the str methods the code uses *)

Digits == <<"0", "1", "2", "3", "4", "5", "6", "7", "8", "9">>
LowerLetters == <<"a", "b", "c", "d", "e", "f", "g", "h", "i", "j", "k", "l", "m",
                  "n", "o", "p", "q", "r", "s", "t", "u", "v", "w", "x", "y", "z">>
UpperLetters == <<"A", "B", "C", "D", "E", "F", "G", "H", "I", "J", "K", "L", "M",
                  "N", "O", "P", "Q", "R", "S", "T", "U", "V", "W", "X", "Y", "Z">>

Range(s) == {s[i] : i \in DOMAIN s}

IsDigit(c) == c \in Range(Digits)
IsLower(c) == c \in Range(LowerLetters)
IsUpper(c) == c \in Range(UpperLetters)
IsSpace(c) == c \in {" ", "\n", "\t"}
\* \w of the re module
IsWordChar(c) == IsDigit(c) \/ IsLower(c) \/ IsUpper(c) \/ c = "_"

None == <<"<None>">>
\* truth value of an Optional[str]
Truthy(cell) == cell # None /\ cell # <<>>

UpperChar(c) ==
    IF IsLower(c)
    THEN UpperLetters[CHOOSE i \in DOMAIN LowerLetters : LowerLetters[i] = c]
    ELSE c

\* str.upper()
Upper(s) == [i \in DOMAIN s |-> UpperChar(s[i])]

\* s[:n]
Take(s, n) == SubSeq(s, 1, IF Len(s) < n THEN Len(s) ELSE n)

\* str.strip()
Strip(s) ==
    LET keep == {i \in DOMAIN s : ~IsSpace(s[i])}
        Lo == CHOOSE i \in keep : \A j \in keep : i <= j
        Hi == CHOOSE i \in keep : \A j \in keep : j <= i
    IN  IF keep = {} THEN <<>> ELSE SubSeq(s, Lo, Hi)

\* c in s, for one character c
HasChar(s, c) == \E i \in DOMAIN s : s[i] = c

\* pat in s
Contains(s, pat) ==
    \E i \in 1..(Len(s) - Len(pat) + 1) : SubSeq(s, i, i + Len(pat) - 1) = pat

\* s.split(c)[0]
SplitFirst(s, c) ==
    IF HasChar(s, c)
    THEN SubSeq(s, 1, (CHOOSE i \in DOMAIN s : s[i] = c /\ \A j \in 1..(i - 1) : s[j] # c) - 1)
    ELSE s

\* s.split(c)
RECURSIVE Split(_, _)
Split(s, c) ==
    IF HasChar(s, c)
    THEN <<SplitFirst(s, c)>> \o Split(SubSeq(s, Len(SplitFirst(s, c)) + 2, Len(s)), c)
    ELSE <<s>>

\* re.sub(r'\s+', ' ', s)
RECURSIVE CollapseSpace(_)
CollapseSpace(s) ==
    IF s = <<>> THEN <<>>
    ELSE IF IsSpace(s[1])
         THEN IF Len(s) > 1 /\ IsSpace(s[2])
              THEN CollapseSpace(Tail(s))
              ELSE <<" ">> \o CollapseSpace(Tail(s))
         ELSE <<s[1]>> \o CollapseSpace(Tail(s))

\* ' '.join(parts)
RECURSIVE Join(_)
Join(parts) ==
    IF parts = <<>> THEN <<>>
    ELSE IF Len(parts) = 1 THEN parts[1]
    ELSE parts[1] \o <<" ">> \o Join(Tail(parts))

\* str.isdigit()
AllDigits(s) == s # <<>> /\ \A i \in DOMAIN s : IsDigit(s[i])

DigitValue(c) == (CHOOSE i \in DOMAIN Digits : Digits[i] = c) - 1

\* int(s) of a string of decimal digits
RECURSIVE DigitsToInt(_)
DigitsToInt(s) ==
    IF s = <<>> THEN 0
    ELSE 10 * DigitsToInt(SubSeq(s, 1, Len(s) - 1)) + DigitValue(s[Len(s)])

\* str(n) for n >= 0
RECURSIVE IntToStr(_)
IntToStr(n) ==
    IF n < 10 THEN <<Digits[n + 1]>>
    ELSE IntToStr(n \div 10) \o <<Digits[(n % 10) + 1]>>

Min(S) == CHOOSE x \in S : \A y \in S : x <= y

\* sorted(S)
RECURSIVE Sorted(_)
Sorted(S) == IF S = {} THEN <<>> ELSE <<Min(S)>> \o Sorted(S \ {Min(S)})

-----------------------------------------------------------------------------
(* The identifier of a table row: lines 209-217 *)

NSN_DIGITS == 9

\* re.search(r'\d{9}', text) -- the pattern without its word boundaries
SearchNineDigitsUnbounded(text) ==
    LET hits == {i \in 1..(Len(text) - NSN_DIGITS + 1) :
                    \A k \in i..(i + NSN_DIGITS - 1) : IsDigit(text[k])}
    IN  IF hits = {} THEN <<>> ELSE SubSeq(text, Min(hits), Min(hits) + NSN_DIGITS - 1)

\* re.search(r'\b(\d{9})\b', text).group(1), <<>> when there is no match
SearchNineDigits(text) ==
    LET hits == {i \in 1..(Len(text) - NSN_DIGITS + 1) :
                    /\ \A k \in i..(i + NSN_DIGITS - 1) : IsDigit(text[k])
                    /\ (i = 1 \/ ~IsWordChar(text[i - 1]))
                    /\ (i + NSN_DIGITS > Len(text) \/ ~IsWordChar(text[i + NSN_DIGITS]))}
    IN  IF hits = {} THEN <<>> ELSE SubSeq(text, Min(hits), Min(hits) + NSN_DIGITS - 1)

\* nsn of a row whose material cell is cell
MaterialNsn(cell) ==
    IF Truthy(cell) THEN SearchNineDigits(Strip(cell)) ELSE <<>>

-----------------------------------------------------------------------------
(* Values of the variables a specification does not use *)

IdleExt ==
    /\ items = <<>> /\ page_no = 0 /\ words = <<>> /\ bIdx = 0
    /\ row_seen = FALSE /\ outcome = "none" /\ from_words = 0 /\ result = <<>>
IdleHdr == header = <<>> /\ hIdx = 0 /\ col_indices = <<>>
IdleNsn == material_cell = None /\ nsn = <<>>
NoReturn == [path |-> "none", item_count |-> -1]
IdleGen ==
    /\ writer = <<>> /\ page_num = 0 /\ template_ok = TRUE /\ output_ok = TRUE
    /\ failure = "none" /\ output = <<>> /\ ret = NoReturn

-----------------------------------------------------------------------------
(* SpecNsn: the identifier branch of a table row, over material cells *)

MaxSegs == 3

T_D13 == <<"5", "8", "2", "0", "0", "1", "1", "2", "3", "4", "5", "6", "7">>
T_D9 == <<"1", "2", "3", "4", "5", "6", "7", "8", "9">>
T_D8 == <<"1", "2", "3", "4", "5", "6", "7", "8">>
T_EXTRA == <<"E", "X", "T", "R", "A">>

MaterialSegments == {T_D13, T_D9, T_D8, T_EXTRA, <<" ">>, <<"-">>, <<"_">>, <<"\n">>}

RECURSIVE Concats(_)
\* every text made of at most n segments
Concats(n) ==
    IF n = 0 THEN {<<>>}
    ELSE Concats(n - 1) \cup {t \o s : t \in Concats(n - 1), s \in MaterialSegments}

MaterialCells == Concats(MaxSegs) \cup {None}

NsnInit ==
    /\ pc = "nsn"
    /\ material_cell \in MaterialCells
    /\ nsn = <<>>
    /\ IdleExt /\ IdleHdr /\ IdleGen

\* lines 209-217
ExtractNsn ==
    /\ pc = "nsn"
    /\ nsn' = MaterialNsn(material_cell)
    /\ pc' = "nsn_done"
    /\ UNCHANGED <<material_cell, extVars, hdrVars, genVars>>

NsnNext == ExtractNsn

SpecNsn == NsnInit /\ [][NsnNext]_vars

\* the text the regular expression is searched in
MaterialText == IF Truthy(material_cell) THEN Strip(material_cell) ELSE <<>>

\* start positions of the runs of nine digits of t
NineDigitStarts(t) ==
    {i \in 1..(Len(t) - 8) : \A k \in i..(i + 8) : IsDigit(t[k])}

\* the maximal runs of word characters of t, in order
RECURSIVE WordTokens(_)
WordTokens(t) ==
    IF t = <<>> THEN <<>>
    ELSE IF ~IsWordChar(t[1]) THEN WordTokens(Tail(t))
    ELSE LET stops == {i \in DOMAIN t : ~IsWordChar(t[i])}
             end == IF stops = {} THEN Len(t) ELSE Min(stops) - 1
         IN  <<SubSeq(t, 1, end)>> \o WordTokens(SubSeq(t, end + 1, Len(t)))

NineDigitTokens(t) == SelectSeq(WordTokens(t), LAMBDA w : Len(w) = 9 /\ AllDigits(w))

\* C6 as stated: the identifier is the first run of 9 digits present in the
\* material cell's text, and is empty only when the text has no 9-digit run.
C6_FirstNineDigitRun ==
    pc = "nsn_done" =>
        IF NineDigitStarts(MaterialText) = {}
        THEN nsn = <<>>
        ELSE nsn = SubSeq(MaterialText, Min(NineDigitStarts(MaterialText)),
                          Min(NineDigitStarts(MaterialText)) + 8)

\* C6 amended: the identifier is the first word of the material text (a
\* maximal run of letters, digits and underscores) that consists of exactly
\* nine digits, and is empty when the text has no such word -- also when a
\* longer digit run such as a 13-digit stock number is present.
C6_FirstNineDigitWord ==
    pc = "nsn_done" =>
        IF NineDigitTokens(MaterialText) = <<>>
        THEN nsn = <<>>
        ELSE nsn = NineDigitTokens(MaterialText)[1]

\* C6 witness: "5820011234567 EXTRA" was searched and gave no identifier.
C6_Witness ==
    /\ pc = "nsn_done"
    /\ material_cell = T_D13 \o <<" ">> \o T_EXTRA
    /\ nsn = <<>>

-----------------------------------------------------------------------------
(* Column roles of a table header: lines 167-181 *)

T_LV == <<"L", "V">>
T_LEVEL == <<"L", "E", "V", "E", "L">>
T_DESCRIPTION == <<"D", "E", "S", "C", "R", "I", "P", "T", "I", "O", "N">>
T_MATERIAL == <<"M", "A", "T", "E", "R", "I", "A", "L">>
T_QTY == <<"Q", "T", "Y">>
T_QUANTITY == <<"Q", "U", "A", "N", "T", "I", "T", "Y">>

\* the role the if/elif chain of lines 174-181 gives a header cell, "none"
\* when the cell is empty or matches no keyword
CellRole(cell) ==
    IF ~Truthy(cell) THEN "none"
    ELSE LET cell_text == Upper(Strip(cell))
         IN  IF Contains(cell_text, T_LV) \/ Contains(cell_text, T_LEVEL) THEN "lv"
             ELSE IF Contains(cell_text, T_DESCRIPTION) THEN "desc"
             ELSE IF Contains(cell_text, T_MATERIAL) THEN "material"
             ELSE IF Contains(cell_text, T_QTY) \/ Contains(cell_text, T_QUANTITY) THEN "qty"
             ELSE "none"

\* col_indices[role] = idx
SetRole(cols, role, idx) ==
    [r \in DOMAIN cols \cup {role} |-> IF r = role THEN idx ELSE cols[r]]

\* one iteration of the loop of line 171; idx is the 0-based index of cell
ClassifyCell(cols, idx, cell) ==
    IF CellRole(cell) = "none" THEN cols ELSE SetRole(cols, CellRole(cell), idx)

RECURSIVE ResolveFrom(_, _, _)
ResolveFrom(cols, idx, hdr) ==
    IF idx >= Len(hdr) THEN cols
    ELSE ResolveFrom(ClassifyCell(cols, idx, hdr[idx + 1]), idx + 1, hdr)

\* col_indices after the loop of lines 171-181 over header hdr
ResolveHeader(hdr) == ResolveFrom(<<>>, 0, hdr)

-----------------------------------------------------------------------------
(* SpecHeader: the header loop, one cell per step, over headers *)

MaxCols == 4

H_AUTH_QTY == <<"A", "U", "T", "H", " ", "Q", "T", "Y">>
H_OH_QTY == <<"O", "H", " ", "Q", "T", "Y">>
H_lv_padded == <<" ", "l", "v", " ">>
H_Quantity == <<"Q", "u", "a", "n", "t", "i", "t", "y">>
H_ITEM == <<"I", "T", "E", "M">>

HeaderCells ==
    {T_LV, T_DESCRIPTION, T_MATERIAL, H_AUTH_QTY, H_OH_QTY, H_lv_padded,
     H_Quantity, H_ITEM, None}

RECURSIVE SeqsUpTo(_, _)
\* the sequences over S of length at most n
SeqsUpTo(S, n) ==
    IF n = 0 THEN {<<>>}
    ELSE SeqsUpTo(S, n - 1) \cup {Append(t, x) : t \in SeqsUpTo(S, n - 1), x \in S}

Headers == SeqsUpTo(HeaderCells, MaxCols)

HdrInit ==
    /\ pc = "hdr"
    /\ header \in Headers
    /\ hIdx = 0
    /\ col_indices = <<>>
    /\ IdleExt /\ IdleNsn /\ IdleGen

\* lines 171-181, one cell
ClassifyHeaderCell ==
    /\ pc = "hdr"
    /\ hIdx < Len(header)
    /\ col_indices' = ClassifyCell(col_indices, hIdx, header[hIdx + 1])
    /\ hIdx' = hIdx + 1
    /\ UNCHANGED <<pc, header, extVars, nsnVars, genVars>>

\* the loop of line 171 ends
HeaderDone ==
    /\ pc = "hdr"
    /\ hIdx = Len(header)
    /\ pc' = "hdr_done"
    /\ UNCHANGED <<hdrVars, extVars, nsnVars, genVars>>

HdrNext == ClassifyHeaderCell \/ HeaderDone

SpecHeader == HdrInit /\ [][HdrNext]_vars

Roles == {"lv", "desc", "material", "qty"}

\* 0-based indices of the header cells that classify into role
RoleColumns(role) == {i \in 0..(Len(header) - 1) : CellRole(header[i + 1]) = role}

\* C9 as stated: once the header is resolved, every role is recorded at the
\* first (leftmost) header cell that classifies into it.
C9_FirstCellWins ==
    pc = "hdr_done" =>
        \A role \in Roles :
            RoleColumns(role) # {} =>
                /\ role \in DOMAIN col_indices
                /\ col_indices[role] = Min(RoleColumns(role))

\* C9, what the code does: a role is recorded at the last cell that
\* classifies into it.
C9_LastCellWins ==
    pc = "hdr_done" =>
        /\ DOMAIN col_indices = {role \in Roles : RoleColumns(role) # {}}
        /\ \A role \in DOMAIN col_indices :
               \A i \in RoleColumns(role) : i <= col_indices[role]
-----------------------------------------------------------------------------
(* Position-based extraction of one page: lines 51-155 *)

\* round(x) for x = t / 2, t >= 0: halves go to the even neighbour
RoundHalfEven(t) ==
    IF t % 2 = 0 THEN t \div 2
    ELSE IF (t \div 2) % 2 = 0 THEN t \div 2 ELSE (t \div 2) + 1

\* line 59: y = round(word['top'] * 2) / 2.  A word's top is kept in quarter
\* points (top4), y in half points.
YOf(w) == RoundHalfEven(w.top4)

\* y_groups[y]
YGroup(ws, y) == SelectSeq(ws, LAMBDA w : YOf(w) = y)

\* sorted_y
SortedY(ws) == Sorted({YOf(ws[i]) : i \in DOMAIN ws})

\* word['text'].upper() == 'B'
IsB(text) == Upper(text) = <<"B">>

BsOfGroup(group, y) ==
    LET bs == SelectSeq(group, LAMBDA w : IsB(w.text))
    IN  [i \in DOMAIN bs |->
            [y |-> y, x |-> bs[i].x0, width |-> bs[i].x1 - bs[i].x0, text |-> bs[i].text]]

RECURSIVE BPositionsFrom(_, _)
BPositionsFrom(ws, ys) ==
    IF ys = <<>> THEN <<>>
    ELSE BsOfGroup(YGroup(ws, Head(ys)), Head(ys)) \o BPositionsFrom(ws, Tail(ys))

\* b_positions: lines 68-77
BPositions(ws) == BPositionsFrom(ws, SortedY(ws))

\* re.match(r'^\d{9}$', text); a word of extract_words holds no newline
IsNineDigits(text) == Len(text) = NSN_DIGITS /\ AllDigits(text)

\* re.match(r'^C_[A-Z0-9]+$', text)
IsCCode(text) ==
    /\ Len(text) >= 3
    /\ text[1] = "C" /\ text[2] = "_"
    /\ \A i \in 3..Len(text) : IsUpper(text[i]) \/ IsDigit(text[i])

\* lines 98 and 122
CodeTokens ==
    {<<"W", "T", "Y">>, <<"A", "R", "C">>, <<"C", "I", "I", "C">>, <<"U", "I">>, <<"S", "C", "M", "C">>, <<"E", "A">>,
     <<"A", "Y">>, <<"9", "K">>, <<"9", "G">>}

\* lines 88-101
SameLineWords(ws, b) ==
    SelectSeq(YGroup(ws, b.y),
              LAMBDA w : /\ ~IsB(w.text)
                         /\ ~IsNineDigits(w.text)
                         /\ ~IsCCode(w.text)
                         /\ w.text \notin CodeTokens)

InsertByX0(sorted, w) ==
    LET k == Cardinality({i \in DOMAIN sorted : sorted[i].x0 <= w.x0})
    IN  SubSeq(sorted, 1, k) \o <<w>> \o SubSeq(sorted, k + 1, Len(sorted))

\* line 104: list.sort(key=x0), a stable sort
RECURSIVE SortByX0(_)
SortByX0(ws) ==
    IF ws = <<>> THEN <<>>
    ELSE InsertByX0(SortByX0(SubSeq(ws, 1, Len(ws) - 1)), ws[Len(ws)])

\* description_parts: lines 107-111
DescriptionParts(ws, b) ==
    LET right == SelectSeq(SortByX0(SameLineWords(ws, b)), LAMBDA w : w.x0 > b.x + b.width)
    IN  [i \in DOMAIN right |-> right[i].text]

\* line 122: re.sub(r'\b(WTY|ARC|CIIC|UI|SCMC|EA|AY|9K|9G)\b$', '', d, flags=re.IGNORECASE)
\* ($ also matches before a final newline)
StripTrailingCode(d) ==
    LET end == IF d # <<>> /\ d[Len(d)] = "\n" THEN Len(d) - 1 ELSE Len(d)
        starts == {i \in 1..end : /\ Upper(SubSeq(d, i, end)) \in CodeTokens
                                  /\ (i = 1 \/ ~IsWordChar(d[i - 1]))}
    IN  IF starts = {} THEN d
        ELSE SubSeq(d, 1, Min(starts) - 1) \o SubSeq(d, end + 1, Len(d))

\* lines 114-123
CleanLineDescription(parts) ==
    LET joined == Join(parts)
        cut == IF HasChar(joined, "(") THEN Strip(SplitFirst(joined, "(")) ELSE joined
    IN  Strip(CollapseSpace(StripTrailingCode(cut)))

Abs(n) == IF n < 0 THEN -n ELSE n

\* line 129: 3.0 points, in half points
NSN_Y_RANGE == 6
\* line 140: 1.5 points, in half points
QTY_Y_RANGE == 3
\* line 142
QTY_MIN == 1
QTY_MAX == 100

RECURSIVE NsnScan(_, _, _)
NsnScan(ws, ys, b_y) ==
    IF ys = <<>> THEN <<>>
    ELSE LET hits == SelectSeq(YGroup(ws, Head(ys)), LAMBDA w : IsNineDigits(w.text))
         IN  IF Abs(Head(ys) - b_y) <= NSN_Y_RANGE /\ hits # <<>>
             THEN hits[1].text
             ELSE NsnScan(ws, Tail(ys), b_y)

\* nsn: lines 126-135
NearNsn(ws, b) == NsnScan(ws, SortedY(ws), b.y)

IsQtyWord(w) ==
    /\ AllDigits(w.text)
    /\ QTY_MIN <= DigitsToInt(w.text) /\ DigitsToInt(w.text) <= QTY_MAX

RECURSIVE QtyScan(_, _, _, _)
QtyScan(ws, ys, b_y, qty) ==
    IF ys = <<>> THEN qty
    ELSE LET hits == SelectSeq(YGroup(ws, Head(ys)), IsQtyWord)
             q == IF Abs(Head(ys) - b_y) <= QTY_Y_RANGE /\ hits # <<>>
                  THEN DigitsToInt(hits[1].text)
                  ELSE qty
         IN  IF q # 1 THEN q ELSE QtyScan(ws, Tail(ys), b_y, q)

\* qty: lines 138-146
NearQty(ws, b) == QtyScan(ws, SortedY(ws), b.y, 1)

\* lines 151 and 232: description[:100]
DESC_CAP == 100
\* line 148: len(description) > 2
DESC_MIN == 2

\* the line number of a stale count: len(items), not len(items) + 1
NextLineNoStale(its) == Len(its)
\* lines 150 and 231: len(items) + 1
NextLineNo(its) == Len(its) + 1

\* BomItem(...) of lines 149-154 and 230-235
BomItem(description, nsn_, qty, its) ==
    [line_no |-> NextLineNo(its), description |-> Take(description, DESC_CAP),
     nsn |-> nsn_, qty |-> qty]

\* line 148: description and len(description) > 2
KeepsLine(description) == description # <<>> /\ Len(description) > DESC_MIN

\* What the body of the loop of line 82 does for b: the outcome and the
\* items afterwards
PositionResult(ws, b, its) ==
    LET parts == DescriptionParts(ws, b)
        description == CleanLineDescription(parts)
    IN  IF parts = <<>> THEN [outcome |-> "no_text", items |-> its]
        ELSE IF KeepsLine(description)
        THEN [outcome |-> "emit",
              items |-> Append(its, BomItem(description, NearNsn(ws, b), NearQty(ws, b), its))]
        ELSE [outcome |-> IF description = <<>> THEN "empty_description"
                          ELSE "short_description",
              items |-> its]
-----------------------------------------------------------------------------
(* Table-based extraction of one row: lines 184-236 *)

\* A row of a table is a list of cells; a value of another type has list = FALSE
ListRow(cells) == [list |-> TRUE, cells |-> cells]
NoneRow == [list |-> FALSE, cells |-> <<>>]

\* 'role' in col_indices and len(row) > col_indices['role']
HasColumn(row, cols, role) == role \in DOMAIN cols /\ Len(row.cells) > cols[role]

\* row[col_indices['role']]
CellOf(row, cols, role) == row.cells[cols[role] + 1]

\* lines 189-207
TableDescription(desc_cell) ==
    IF ~Truthy(desc_cell) THEN <<>>
    ELSE LET lines == Split(Strip(desc_cell), "\n")
             picked == IF Len(lines) >= 2 THEN Strip(lines[2]) ELSE Strip(desc_cell)
             noColon == IF HasChar(picked, ":") THEN Strip(SplitFirst(picked, ":")) ELSE picked
             noParen == IF HasChar(noColon, "(") THEN Strip(SplitFirst(noColon, "(")) ELSE noColon
         IN  Strip(CollapseSpace(noParen))

\* int(s): [ok, value]; an optional sign, then digits, single underscores
\* allowed between digits
ParseInt(s) ==
    LET signed == s # <<>> /\ s[1] \in {"+", "-"}
        body == IF signed THEN Tail(s) ELSE s
        valid == /\ body # <<>>
                 /\ \A i \in DOMAIN body :
                        \/ IsDigit(body[i])
                        \/ /\ body[i] = "_"
                           /\ 1 < i /\ i < Len(body)
                           /\ IsDigit(body[i - 1]) /\ IsDigit(body[i + 1])
        magnitude == DigitsToInt(SelectSeq(body, IsDigit))
    IN  [ok |-> valid,
         value |-> IF ~valid THEN 0
                   ELSE IF signed /\ s[1] = "-" THEN 0 - magnitude ELSE magnitude]

\* lines 220-227
TableQty(qty_cell) ==
    IF ~Truthy(qty_cell) THEN 1
    ELSE IF ParseInt(Strip(qty_cell)).ok THEN ParseInt(Strip(qty_cell)).value
    ELSE 1

\* a row is kept whatever its description
KeepsRowAlways(description) == TRUE
\* line 229: if description
KeepsRow(description) == description # <<>>

\* lv_cell and str(lv_cell).strip().upper() == 'B'
IsMarked(lv_cell) == Truthy(lv_cell) /\ Upper(Strip(lv_cell)) = <<"B">>

\* What the body of the loop of line 184 does for row: the outcome ("raise"
\* when len(row) raises TypeError) and the items afterwards
RowResult(row, cols, its) ==
    IF "lv" \notin DOMAIN cols THEN [outcome |-> "not_marked", items |-> its]
    ELSE IF ~row.list THEN [outcome |-> "raise", items |-> its]
    ELSE IF ~HasColumn(row, cols, "lv") \/ ~IsMarked(CellOf(row, cols, "lv"))
    THEN [outcome |-> "not_marked", items |-> its]
    ELSE LET description == IF HasColumn(row, cols, "desc")
                            THEN TableDescription(CellOf(row, cols, "desc"))
                            ELSE <<>>
             nsn_ == IF HasColumn(row, cols, "material")
                     THEN MaterialNsn(CellOf(row, cols, "material"))
                     ELSE <<>>
             qty == IF HasColumn(row, cols, "qty")
                    THEN TableQty(CellOf(row, cols, "qty"))
                    ELSE 1
         IN  IF KeepsRow(description)
             THEN [outcome |-> "emit",
                   items |-> Append(its, BomItem(description, nsn_, qty, its))]
             ELSE [outcome |-> "empty_description", items |-> its]

-----------------------------------------------------------------------------
(* Spec: extract_items_from_pdf over documents *)

\* no document has more pages than this
MaxPages == 2
\* no document yields more records than this
MaxItems == 5

\* line 158: len(items) < 5
FALLBACK_BELOW == 5

T_B == <<"B">>
T_PUMP == <<"P", "U", "M", "P">>
T_VALVE == <<"V", "A", "L", "V", "E">>
T_PAREN == <<"(", "X", ")">>

Word(text, top4, x0) == [text |-> text, top4 |-> top4, x0 |-> x0, x1 |-> x0 + 5]
\* the words of one printed line, left to right
LineAt(texts, top4) == [i \in DOMAIN texts |-> Word(texts[i], top4, 10 * i)]

PageWords ==
    { <<>>,
      LineAt(<<T_PUMP>>, 400),
      LineAt(<<T_B, T_PUMP>>, 400),
      LineAt(<<T_B, T_PUMP, T_PAREN, T_D9, <<"4">>>>, 400),
      LineAt(<<T_B, T_PUMP, <<"E", "A">>>>, 400) \o LineAt(<<T_D9, <<"4">>>>, 404),
      LineAt(<<<<"b">>, T_PUMP, <<"C", "_", "A", "1">>>>, 400) \o LineAt(<<T_D9, <<"4">>>>, 420),
      <<Word(T_PUMP, 401, 10), Word(T_B, 400, 0), Word(<<"1", "5", "0">>, 404, 0)>>,
      LineAt(<<<<"1">>, T_B, T_PUMP>>, 400),
      LineAt(<<T_B, T_PAREN>>, 400) \o LineAt(<<T_B, <<"e", "a">>>>, 440)
          \o LineAt(<<T_B, <<"A", "B">>>>, 480) \o LineAt(<<T_PUMP, T_B>>, 520),
      LineAt(<<T_B, T_B, T_PUMP>>, 400) \o LineAt(<<T_B, T_B, T_PUMP>>, 440)
          \o LineAt(<<T_B, T_PUMP>>, 480) }

TableHeaders ==
    { <<T_LV, T_DESCRIPTION, T_MATERIAL, H_AUTH_QTY>>,
      <<T_LV, T_DESCRIPTION, T_MATERIAL, H_AUTH_QTY, H_OH_QTY>>,
      <<None, H_lv_padded, T_MATERIAL>>,
      <<H_ITEM, T_DESCRIPTION>> }

TableRows ==
    { ListRow(<<T_B, <<"R", "A", "D", "I", "O", "\n", "V", "A", "L", "V", "E">>, T_D9, <<"0">>, <<"0">>>>),
      ListRow(<<<<"b", " ">>, <<"V", "A", "L", "V", "E", ":", " ", "X">>, T_D13 \o <<" ">> \o T_EXTRA, <<" ", "1", " ">>, None>>),
      ListRow(<<T_B, T_VALVE>>),
      ListRow(<<T_B, <<"V", "A", "L", "V", "E", " ", "(", "X", ")">>, None, <<"x">>>>),
      ListRow(<<T_B, T_PAREN, T_D9, <<"4">>>>),
      ListRow(<<T_B, None, T_D9, <<"4">>>>),
      ListRow(<<T_B, <<"R", "A", "D", "I", "O", "\n", " ", "\n", "X">>, T_D9, <<"4">>>>),
      ListRow(<<<<"A">>, T_VALVE, T_D9, <<"4">>>>),
      ListRow(<<None, T_B, T_VALVE>>),
      NoneRow }

Init ==
    /\ pc = "open"
    /\ items = <<>>
    /\ page_no = 0 /\ words = <<>> /\ bIdx = 0 /\ row_seen = FALSE
    /\ outcome = "none" /\ from_words = 0 /\ result = <<>>
    /\ IdleHdr /\ IdleNsn /\ IdleGen

\* line 46: pdfplumber.open succeeds
OpenPdf ==
    /\ pc = "open"
    /\ pc' = "page"
    /\ UNCHANGED <<extVars, hdrVars, nsnVars, genVars>>

\* line 46 raises: lines 238-240
OpenFails ==
    /\ pc = "open"
    /\ pc' = "done"
    /\ result' = <<>>
    /\ outcome' = "open_failed"
    /\ UNCHANGED <<items, page_no, words, bIdx, row_seen, from_words,
                   hdrVars, nsnVars, genVars>>

\* lines 47-79: the next page and its words; a page without words is left
NextPage ==
    /\ pc = "page"
    /\ page_no < MaxPages
    /\ \E ws \in PageWords :
        /\ Len(items) + Len(BPositions(ws)) <= MaxItems
        /\ words' = ws
        /\ IF ws = <<>>
           THEN pc' = "page" /\ bIdx' = 0
           ELSE pc' = "pos" /\ bIdx' = 1
    /\ page_no' = page_no + 1
    /\ outcome' = "none"
    /\ UNCHANGED <<items, row_seen, from_words, result, hdrVars, nsnVars, genVars>>

\* lines 82-155: one entry of b_positions
PositionStep ==
    /\ pc = "pos"
    /\ bIdx <= Len(BPositions(words))
    /\ LET r == PositionResult(words, BPositions(words)[bIdx], items)
       IN  /\ items' = r.items
           /\ outcome' = r.outcome
           /\ from_words' = IF r.outcome = "emit" THEN from_words + 1 ELSE from_words
    /\ bIdx' = bIdx + 1
    /\ UNCHANGED <<pc, page_no, words, row_seen, result, hdrVars, nsnVars, genVars>>

\* lines 158-162: after the last "B", the tables are read when fewer than 5
\* items were found so far
PositionDone ==
    /\ pc = "pos"
    /\ bIdx > Len(BPositions(words))
    /\ pc' = IF Len(items) < FALLBACK_BELOW THEN "table" ELSE "page"
    /\ words' = <<>>
    /\ bIdx' = 0
    /\ outcome' = "none"
    /\ UNCHANGED <<items, page_no, row_seen, from_words, result, hdrVars, nsnVars, genVars>>

\* lines 163-165: a table of fewer than 2 rows is left
SkipShortTable ==
    /\ pc = "table"
    /\ outcome' = "short_table"
    /\ UNCHANGED <<pc, items, page_no, words, bIdx, row_seen, from_words, result,
                   hdrVars, nsnVars, genVars>>

\* lines 163-181: the next table and the roles of its header
StartTable ==
    /\ pc = "table"
    /\ \E hdr \in TableHeaders :
        /\ header' = hdr
        /\ hIdx' = Len(hdr)
        /\ col_indices' = ResolveHeader(hdr)
    /\ row_seen' = FALSE
    /\ pc' = "row"
    /\ outcome' = "none"
    /\ UNCHANGED <<items, page_no, words, bIdx, from_words, result, nsnVars, genVars>>

\* lines 184-236: one row; a row that raises ends the function at lines 238-240
RowStep ==
    /\ pc = "row"
    /\ \E row \in TableRows :
        LET r == RowResult(row, col_indices, items)
        IN  /\ r.outcome = "emit" => Len(items) < MaxItems
            /\ items' = r.items
            /\ outcome' = r.outcome
            /\ IF r.outcome = "raise"
               THEN pc' = "done" /\ result' = <<>>
               ELSE pc' = pc /\ result' = result
    /\ row_seen' = TRUE
    /\ UNCHANGED <<page_no, words, bIdx, from_words, hdrVars, nsnVars, genVars>>

\* the loop of line 184 ends; table[1:] holds at least one row
RowsDone ==
    /\ pc = "row"
    /\ row_seen
    /\ pc' = "table"
    /\ row_seen' = FALSE
    /\ header' = <<>> /\ hIdx' = 0 /\ col_indices' = <<>>
    /\ outcome' = "none"
    /\ UNCHANGED <<items, page_no, words, bIdx, from_words, result, nsnVars, genVars>>

\* the loop of line 163 ends
TablesDone ==
    /\ pc = "table"
    /\ pc' = "page"
    /\ outcome' = "none"
    /\ UNCHANGED <<items, page_no, words, bIdx, row_seen, from_words, result,
                   hdrVars, nsnVars, genVars>>

\* lines 242-243: the loop of line 47 ends
ReturnItems ==
    /\ pc = "page"
    /\ pc' = "done"
    /\ result' = items
    /\ outcome' = "none"
    /\ UNCHANGED <<items, page_no, words, bIdx, row_seen, from_words,
                   hdrVars, nsnVars, genVars>>

Next ==
    \/ OpenPdf \/ OpenFails \/ NextPage \/ PositionStep \/ PositionDone
    \/ SkipShortTable \/ StartTable \/ RowStep \/ RowsDone \/ TablesDone \/ ReturnItems

Spec == Init /\ [][Next]_vars
-----------------------------------------------------------------------------
(* Pagination and overlay of generate_dd1750_from_pdf: lines 246-338 *)

\* Lengths are in hundredths of a point
ROWS_PER_PAGE == 18
X_BOX_L == 4400
X_BOX_R == 8800
X_CONTENT_L == 8800
X_CONTENT_R == 36500
X_UOI_L == 36500
X_UOI_R == 40850
X_INIT_L == 40850
X_INIT_R == 45350
X_SPARES_L == 45350
X_SPARES_R == 51450
X_TOTAL_L == 51450
X_TOTAL_R == 56600
Y_TABLE_TOP_LINE == 61600
Y_TABLE_BOTTOM_LINE == 8950
ROW_H == (Y_TABLE_TOP_LINE - Y_TABLE_BOTTOM_LINE) \div ROWS_PER_PAGE
PAD_X == 300
\* line 283: Y_TABLE_TOP_LINE - 5.0
FIRST_ROW_MARGIN == 500
\* lines 288-289: y - 7.0 and y - 12.2
DESC_DROP == 700
NSN_DROP == 1220
\* lines 298-299
DESC_DRAW_MAX == 50
DESC_DRAW_KEEP == 47

\* str(n)
IntToText(n) == IF n < 0 THEN <<"-">> \o IntToStr(0 - n) ELSE IntToStr(n)

\* math.floor(len(items) / ROWS_PER_PAGE): a page count that drops the last,
\* partly filled page
TotalPagesFloor(its) == Len(its) \div ROWS_PER_PAGE
\* line 266: math.ceil(len(items) / ROWS_PER_PAGE)
TotalPages(its) == (Len(its) + ROWS_PER_PAGE - 1) \div ROWS_PER_PAGE

\* lines 275-277: items[start_idx:end_idx]
PageItems(its, p) ==
    LET start_idx == p * ROWS_PER_PAGE
        end_idx == IF (p + 1) * ROWS_PER_PAGE < Len(its)
                   THEN (p + 1) * ROWS_PER_PAGE ELSE Len(its)
    IN  SubSeq(its, start_idx + 1, end_idx)

Draw(kind, font, x, y, text) ==
    [kind |-> kind, font |-> font, x |-> x, y |-> y, text |-> text]

\* lines 286-313 for the i-th item of a page, i from 0
ItemDraws(item, i) ==
    LET y == (Y_TABLE_TOP_LINE - FIRST_ROW_MARGIN) - i * ROW_H
        y_desc == y - DESC_DROP
        y_nsn == y - NSN_DROP
        desc == IF Len(item.description) > DESC_DRAW_MAX
                THEN Take(item.description, DESC_DRAW_KEEP) \o <<".", ".", ".">>
                ELSE item.description
    IN  <<Draw("centred", 8, (X_BOX_L + X_BOX_R) \div 2, y_desc, IntToText(item.line_no)),
          Draw("string", 7, X_CONTENT_L + PAD_X, y_desc, desc)>>
        \o (IF item.nsn # <<>>
            THEN <<Draw("string", 6, X_CONTENT_L + PAD_X, y_nsn,
                        <<"N", "S", "N", ":", " ">> \o item.nsn)>>
            ELSE <<>>)
        \o <<Draw("centred", 8, (X_UOI_L + X_UOI_R) \div 2, y_desc, <<"E", "A">>),
             Draw("centred", 8, (X_INIT_L + X_INIT_R) \div 2, y_desc, IntToText(item.qty)),
             Draw("centred", 8, (X_SPARES_L + X_SPARES_R) \div 2, y_desc, <<"0">>),
             Draw("centred", 8, (X_TOTAL_L + X_TOTAL_R) \div 2, y_desc, IntToText(item.qty))>>

RECURSIVE OverlayFrom(_, _)
OverlayFrom(page_items, i) ==
    IF i >= Len(page_items) THEN <<>>
    ELSE ItemDraws(page_items[i + 1], i) \o OverlayFrom(page_items, i + 1)

\* the canvas of lines 280-315: everything drawn for page_items
Overlay(page_items) == OverlayFrom(page_items, 0)

\* a page of the output: the template's first page and what was merged onto it
\* (rows: the page_items the overlay was drawn from)
TemplatePage == [background |-> "template_page_0", rows |-> <<>>, draws |-> <<>>]

\* lines 319-322: template_page.merge_page(overlay.pages[0])
MergedPage(page_items) ==
    [background |-> "template_page_0", rows |-> page_items, draws |-> Overlay(page_items)]

\* lines 258-262 with add_page left out
EmptyDocumentForgotten == <<>>
\* lines 258-262: the document written when no items were extracted
EmptyDocument == <<TemplatePage>>

\* the pages rendered before the failure are written
FallbackDocumentPartial(w) == w
\* lines 333-337: the document written by the except block; w is the writer
\* of the try block, which the block replaces by a new one
FallbackDocument(w) == <<TemplatePage>>

Returned(count) == [path |-> "output_path", item_count |-> count]

-----------------------------------------------------------------------------
(* SpecGen: generate_dd1750_from_pdf over the lists extraction returns *)

MaxRecords == 40

RECURSIVE Repeat(_, _)
Repeat(t, k) == IF k = 0 THEN <<>> ELSE t \o Repeat(t, k - 1)

\* a description of 60 characters
LongDescription == Repeat(T_PUMP \o <<" ">>, 11) \o T_VALVE

\* a list extract_items_from_pdf can return: n items numbered from 1
ExtractedItems(n) ==
    [i \in 1..n |->
        [line_no |-> i,
         description |-> IF i % 5 = 0 THEN LongDescription ELSE T_PUMP,
         nsn |-> IF i % 2 = 0 THEN T_D9 ELSE <<>>,
         qty |-> i % 4]]

\* line 249 has returned
GenInit ==
    /\ pc = "extracted"
    /\ items \in {ExtractedItems(n) : n \in 0..MaxRecords}
    /\ template_ok \in BOOLEAN
    /\ output_ok \in BOOLEAN
    /\ writer = <<>> /\ page_num = 0 /\ failure = "none"
    /\ output = <<>> /\ ret = NoReturn
    /\ page_no = 0 /\ words = <<>> /\ bIdx = 0 /\ row_seen = FALSE
    /\ outcome = "none" /\ from_words = 0 /\ result = items
    /\ IdleHdr /\ IdleNsn

genIdle == <<items, page_no, words, bIdx, row_seen, outcome, from_words, result,
             hdrVars, nsnVars, template_ok, output_ok>>

\* lines 256-263: no items, the template alone is written
ReturnEmpty ==
    /\ pc = "extracted"
    /\ items = <<>>
    /\ IF template_ok /\ output_ok
       THEN /\ output' = EmptyDocument
            /\ ret' = Returned(0)
            /\ pc' = "returned"
            /\ failure' = failure
       ELSE /\ failure' = IF template_ok THEN "write" ELSE "template"
            /\ pc' = "except"
            /\ UNCHANGED <<output, ret>>
    /\ UNCHANGED <<writer, page_num, genIdle>>

\* lines 266-271
StartPages ==
    /\ pc = "extracted"
    /\ items # <<>>
    /\ writer' = <<>>
    /\ page_num' = 0
    /\ pc' = "render"
    /\ UNCHANGED <<failure, output, ret, genIdle>>

\* lines 271-322: one page is drawn, merged onto the template and added;
\* reading the template at line 320 raises when it cannot be read
RenderPage ==
    /\ pc = "render"
    /\ page_num < TotalPages(items)
    /\ IF template_ok
       THEN /\ writer' = Append(writer, MergedPage(PageItems(items, page_num)))
            /\ page_num' = page_num + 1
            /\ UNCHANGED <<pc, failure>>
       ELSE /\ failure' = "template"
            /\ pc' = "except"
            /\ UNCHANGED <<writer, page_num>>
    /\ UNCHANGED <<output, ret, genIdle>>

\* lines 280-321: drawing the overlay or merging it raises
RenderFails ==
    /\ pc = "render"
    /\ page_num < TotalPages(items)
    /\ failure' = "render"
    /\ pc' = "except"
    /\ UNCHANGED <<writer, page_num, output, ret, genIdle>>

\* lines 324-328
WriteOutput ==
    /\ pc = "render"
    /\ page_num = TotalPages(items)
    /\ IF output_ok
       THEN /\ output' = writer
            /\ ret' = Returned(Len(items))
            /\ pc' = "returned"
            /\ failure' = failure
       ELSE /\ failure' = "write"
            /\ pc' = "except"
            /\ UNCHANGED <<output, ret>>
    /\ UNCHANGED <<writer, page_num, genIdle>>

\* lines 330-338: the except block; what raises in it reaches the caller
ExceptBlock ==
    /\ pc = "except"
    /\ IF template_ok /\ output_ok
       THEN /\ output' = FallbackDocument(writer)
            /\ ret' = Returned(0)
            /\ pc' = "returned"
       ELSE /\ pc' = "raised"
            /\ UNCHANGED <<output, ret>>
    /\ UNCHANGED <<writer, page_num, failure, genIdle>>

GenNext ==
    \/ ReturnEmpty \/ StartPages \/ RenderPage \/ RenderFails \/ WriteOutput \/ ExceptBlock

SpecGen == GenInit /\ [][GenNext]_vars
-----------------------------------------------------------------------------
(* Properties of extract_items_from_pdf, checked under Spec *)

\* C1: the line_no values of the items, and of the list returned, are
\* exactly 1, 2, ..., N in list order, across pages and tables.
C1_LineNumbersSequential ==
    /\ \A i \in DOMAIN items : items[i].line_no = i
    /\ pc = "done" => \A i \in DOMAIN result : result[i].line_no = i

\* C1 witness: a returned list of at least three items that holds a table
\* record followed by a position-based record, which a later page appended.
C1_Witness ==
    /\ pc = "done"
    /\ Len(result) >= 3
    /\ page_no >= 2
    /\ \E i, j \in DOMAIN result :
        /\ i < j
        /\ result[i].description = T_VALVE
        /\ result[j].description = T_PUMP

NoEmptyDescription ==
    /\ \A i \in DOMAIN items : items[i].description # <<>>
    /\ \A i \in DOMAIN result : result[i].description # <<>>

\* C2: no item ever has an empty description, and a row or line whose cleaned
\* description is empty adds no item and does not end the extraction.
C2_NoEmptyDescription ==
    /\ []NoEmptyDescription
    /\ [][outcome' = "empty_description" =>
            (items' = items /\ result' = result /\ pc' = pc)]_vars

\* C2 witness: a table row with an empty cleaned description was passed over
\* after items had been extracted, and the row loop goes on.
C2_Witness ==
    /\ pc = "row"
    /\ outcome = "empty_description"
    /\ items # <<>>
    /\ "desc" \in DOMAIN col_indices

\* C5 as stated: every item has a quantity of at least 1.
C5_QuantityPositive ==
    \A i \in DOMAIN items : items[i].qty >= 1

\* C7 as stated, its last part: after a row raised, the items extracted from
\* earlier rows, tables and pages are in the list returned.
C7_RowAnomalyKeepsRecords ==
    pc = "done" => result = items

\* C11 as stated: the table fallback emits items only when the position-based
\* pass has yielded none, so the items of one extraction never come from both.
C11_StrategiesExclusive ==
    from_words = 0 \/ from_words = Len(items)

-----------------------------------------------------------------------------
(* Properties of generate_dd1750_from_pdf, checked under SpecGen *)

\* C3: with N >= 1 items the output has ceil(N / ROWS_PER_PAGE) pages, and
\* page p holds the next contiguous slice of the items in order: 18 on every
\* page but the last, the rest on the last.
C3_PagesAreFullSlices ==
    (pc = "returned" /\ ret.item_count >= 1) =>
        LET N == Len(items)
            P == Len(output)
            size(p) == IF p < P THEN ROWS_PER_PAGE ELSE N - (P - 1) * ROWS_PER_PAGE
        IN  /\ ret.item_count = N
            /\ (P - 1) * ROWS_PER_PAGE < N
            /\ N <= P * ROWS_PER_PAGE
            /\ \A p \in 1..P :
                output[p].rows = [k \in 1..size(p) |-> items[(p - 1) * ROWS_PER_PAGE + k]]

\* C3 witness: 40 items were written as pages of 18, 18 and 4.
C3_Witness ==
    /\ pc = "returned"
    /\ Len(items) = 40
    /\ Len(output) = 3
    /\ Len(output[1].rows) = 18 /\ Len(output[2].rows) = 18 /\ Len(output[3].rows) = 4

IsBareTemplate(doc) ==
    /\ Len(doc) = 1
    /\ doc[1].background = "template_page_0"
    /\ doc[1].draws = <<>>

\* C4 as stated: with no items the call never raises and returns item count
\* 0 with the bare template as output.
C4_ZeroItemsNeverRaises ==
    items = <<>> =>
        /\ pc # "raised"
        /\ pc = "returned" => (ret.item_count = 0 /\ IsBareTemplate(output))

\* C4 amended: with no items, and a template that can be read and an output
\* file that can be written, the call returns item count 0 with the bare
\* template page as output and nothing raises; otherwise it does not return.
C4_ZeroItemsReturnsTemplate ==
    items = <<>> =>
        IF template_ok /\ output_ok
        THEN /\ pc \in {"extracted", "returned"}
             /\ pc = "returned" =>
                    /\ ret.path = "output_path" /\ ret.item_count = 0
                    /\ IsBareTemplate(output)
        ELSE pc # "returned"

\* C4 witness: no items, and the call has returned 0 with the bare template.
C4_Witness ==
    /\ items = <<>>
    /\ pc = "returned"
    /\ ret.item_count = 0
    /\ IsBareTemplate(output)

\* "p/total"
PageIndicator(p, total) == IntToText(p) \o <<"/">> \o IntToText(total)

HasIndicator(page, p, total) ==
    \E k \in DOMAIN page.draws : page.draws[k].text = PageIndicator(p, total)

\* C8 as stated: a document of more than one page carries "p/total" on every
\* page p, a document of one page carries none.
C8_PageIndicatorDrawn ==
    (pc = "returned" /\ ret.item_count >= 1) =>
        \A p \in DOMAIN output :
            HasIndicator(output[p], p, Len(output)) <=> (Len(output) > 1)

\* rendering or merging a page raised, after items were extracted
RenderFailed == items # <<>> /\ failure \in {"render", "template"}

====
